---- MODULE Spec2Model ----
(***************************************************************************)
(* A model of the RAG core of the chatbot (rag.py): the chunk store and    *)
(* its pickle file, cosine-similarity retrieval, keyword-overlap           *)
(* reranking, prompt building, the generate() generator and the            *)
(* conversation history.                                                   *)
(*                                                                         *)
(* Texts are sequences of tokens, a token being a word or the whitespace   *)
(* token " ".  Embedding vectors are integer vectors of Euclidean norm 10, *)
(* and similarities are carried in hundredths (0.1 is 10).                 *)
(***************************************************************************)
EXTENDS Integers, Sequences, FiniteSets, TLC

VARIABLES
    chunks,                \* self.chunks
    embeddings,            \* self.embeddings: None or an array
    conversation_history,  \* self.conversation_history
    file,                  \* the contents of embeddings.pkl on disk
    lastSaved,             \* history variable: the store of the last completed dump
    lastOp,                \* the last operation performed and how it ended
    argsortTie,            \* the order in which this build's np.argsort leaves equal keys
    query,                 \* the query of the last retrieve / generate call
    top_k,                 \* the top_k of the last retrieve call
    retrieved,             \* the result of the last retrieve call
    rr,                    \* the arguments and the result of the last rerank call
    gen,                   \* the generator object made by generate(), and its caller
    prompt,                \* the last prompt built by build_prompt
    src                    \* the pass and the result of the last get_sources call

vars == <<chunks, embeddings, conversation_history, file, lastSaved, lastOp,
          argsortTie, query, top_k, retrieved, rr, gen, prompt, src>>

\* ---------------------------------------------------------------- bounds

MaxChunks == 3      \* stored chunks
MaxBatch == 2       \* chunks in one add_chunks call
MaxTop == 3         \* top_k / top_n arguments tried
MaxHist == 5        \* conversation turns a prompt is built from
MaxTurns == 2       \* conversation turns of one chat session
MaxFrags == 1       \* stream events of one generation

\* ------------------------------------------------------ program constants

RETRIEVAL_TOP_K == 5
RERANK_TOP_K == 3
Floor == 10                 \* the relevance floor 0.1, in hundredths
HistoryWindow == 4          \* conversation_history[-4:]

\* None, where an array may stand (self.embeddings = None)
None == [ndim |-> 0, rows |-> <<>>, cols |-> 0]
NoContextMessage == <<"No relevant documents found to answer this question.">>

\* ---------------------------------------------------------------- helpers

Min(a, b) == IF a <= b THEN a ELSE b
Max(a, b) == IF a >= b THEN a ELSE b

Range(s) == {s[i] : i \in 1..Len(s)}

Reverse(s) == [i \in 1..Len(s) |-> s[Len(s) + 1 - i]]

\* s[:k] of Python
PrefixSlice(s, k) ==
    IF k >= 0 THEN SubSeq(s, 1, Min(k, Len(s)))
    ELSE SubSeq(s, 1, Max(0, Len(s) + k))

\* s[-k:] of Python, k > 0
SuffixSlice(s, k) == SubSeq(s, Max(1, Len(s) - k + 1), Len(s))

SeqsUpTo(S, n) == UNION {[1..k -> S] : k \in 0..n}

Perms(n) == {p \in [1..n -> 1..n] : \A i, j \in 1..n : i # j => p[i] # p[j]}

\* ------------------------------------------------------------ the corpus

Chunk(t, s, f) == [text |-> t, source |-> s, file |-> f]

C_a == Chunk(<<"Paris", " ", "capital">>, "a.txt", "a.txt")
C_b == Chunk(<<"rome", " ", " ", "capital">>, "b.pdf:page_1", "b.pdf")
C_c == Chunk(<<"paris", " ", "paris">>, "b.pdf:page_2", "b.pdf")

ChunkPool == {C_a, C_b, C_c}

Q_empty == <<>>
Q_paris == <<"PARIS", " ", "capital">>
Q_rome == <<" ", "rome">>

Queries == {Q_empty, Q_paris, Q_rome}

\* ---------------------------------------------------------- the embedder

\* SentenceTransformer.encode on one text: a fixed function of the text.
Embed(text) ==
    CASE text = C_a.text -> <<10, 0, 0, 0>>
      [] text = C_b.text -> <<6, 8, 0, 0>>
      [] text = C_c.text -> <<6, 0, 8, 0>>
      [] text = Q_paris  -> <<2, 4, 4, 8>>
      [] text = Q_rome   -> <<1, 7, 7, 1>>
      [] OTHER           -> <<-10, 0, 0, 0>>

Dim == Len(Embed(<<>>))

\* An array: ndim 1 is the empty one-dimensional array of shape (0,), ndim 2
\* an array of shape (Len(rows), cols).
Array(rows, cols) == [ndim |-> 2, rows |-> rows, cols |-> cols]
FlatEmpty == [ndim |-> 1, rows |-> <<>>, cols |-> 0]

\* self.embedder.encode(texts): one row per text; of no text, the array of
\* shape (0,).
Encode(texts) ==
    IF texts = <<>> THEN FlatEmpty
    ELSE Array([i \in 1..Len(texts) |-> Embed(texts[i])], Dim)

Texts(cs) == [i \in 1..Len(cs) |-> cs[i].text]

\* np.atleast_2d, as np.vstack applies it: shape (0,) becomes shape (1, 0).
AtLeast2d(a) == IF a.ndim = 1 THEN Array(<< <<>> >>, 0) ELSE a

VStackRaises(a, b) == AtLeast2d(a).cols # AtLeast2d(b).cols

VStack(a, b) == Array(AtLeast2d(a).rows \o AtLeast2d(b).rows, AtLeast2d(a).cols)

\* len(self.embeddings), 0 for None
NumEmbeddings(e) == IF e = None THEN 0 ELSE Len(e.rows)

\* ------------------------------------------------------ cosine similarity

Dot(a, b) == a[1] * b[1] + a[2] * b[2] + a[3] * b[3] + a[4] * b[4]

ISqrt(n) == CHOOSE r \in 0..n : r * r <= n /\ (r + 1) * (r + 1) > n

Norm(a) == ISqrt(Dot(a, a))

\* sklearn's cosine_similarity of two vectors, in hundredths, rounded
\* toward minus infinity
CosineSimilarity(a, b) == (100 * Dot(a, b)) \div (Norm(a) * Norm(b))

\* ------------------------------------------------------------- retrieve

\* np.argsort(keys): the indices in ascending order of key.  The default
\* kind is not a stable sort, so where equal keys land is the build's
\* choice: tie ranks them (the identity is a stable sort).
Argsort(keys, tie) ==
    LET n == Len(keys)
        Before(j, i) == keys[j] < keys[i] \/ (keys[j] = keys[i] /\ tie[j] < tie[i])
        Position(i) == 1 + Cardinality({j \in 1..n : Before(j, i)})
    IN [p \in 1..n |-> CHOOSE i \in 1..n : Position(i) = p]

RelevantOrEqual(s) == s >= Floor

\* similarities[idx] > 0.1
Relevant(s) == s > Floor

\* cosine_similarity([query_embedding[0]], self.embeddings)[0]
Similarities(q, e) ==
    [i \in 1..Len(e.rows) |-> CosineSimilarity(Embed(q), e.rows[i])]

RetrievedDoc(c, s) ==
    [text |-> c.text, source |-> c.source, file |-> c.file, similarity |-> s]

\* RAGSystem.retrieve
Retrieve(cs, e, q, k, tie) ==
    IF e = None \/ Len(cs) = 0 THEN <<>>
    ELSE LET similarities == Similarities(q, e)
             top_indices == PrefixSlice(Reverse(Argsort(similarities, tie)), k)
             kept == SelectSeq(top_indices, LAMBDA idx : Relevant(similarities[idx]))
         IN [i \in 1..Len(kept) |-> RetrievedDoc(cs[kept[i]], similarities[kept[i]])]

\* --------------------------------------------------------------- rerank

\* str.lower on one word
LowerWord(w) ==
    CASE w = "Paris" -> "paris"
      [] w = "PARIS" -> "paris"
      [] OTHER       -> w

\* str.split(): the words between runs of whitespace
Split(text) == SelectSeq(text, LAMBDA t : t # " ")

\* set(text.lower().split())
WordSet(text) == {LowerWord(w) : w \in Range(Split(text))}

\* overlap / (len(query_words) + 1), as the fraction <<numerator, denominator>>
Score(q, doc) ==
    <<Cardinality(WordSet(q) \cap WordSet(doc.text)), Cardinality(WordSet(q)) + 1>>

FracLess(a, b) == a[1] * b[2] < b[1] * a[2]

\* One insertion of list.sort(key=..., reverse=True): x goes behind every
\* element that is not smaller, so equal keys keep their order.
InsertBeforeEqual(sorted, x) ==
    LET ahead == {i \in 1..Len(sorted) : FracLess(x[1], sorted[i][1])}
        m == Cardinality(ahead)
    IN SubSeq(sorted, 1, m) \o <<x>> \o SubSeq(sorted, m + 1, Len(sorted))

InsertDesc(sorted, x) ==
    LET ahead == {i \in 1..Len(sorted) : ~FracLess(sorted[i][1], x[1])}
        m == Cardinality(ahead)
    IN SubSeq(sorted, 1, m) \o <<x>> \o SubSeq(sorted, m + 1, Len(sorted))

RECURSIVE SortDesc(_)
SortDesc(s) ==
    IF s = <<>> THEN <<>>
    ELSE InsertDesc(SortDesc(SubSeq(s, 1, Len(s) - 1)), s[Len(s)])

\* RAGSystem.rerank
Rerank(q, docs, k) ==
    LET scored_docs == [i \in 1..Len(docs) |-> <<Score(q, docs[i]), docs[i]>>]
        top == PrefixSlice(SortDesc(scored_docs), k)
    IN [i \in 1..Len(top) |-> top[i][2]]

\* ------------------------------------------------------- the pickle file

\* embeddings.pkl: absent, bytes that do not unpickle, or a pickled dict
AbsentFile == [kind |-> "absent", keys |-> {}, chunks |-> <<>>, embeddings |-> None]
GarbageFile == [kind |-> "garbage", keys |-> {}, chunks |-> <<>>, embeddings |-> None]
PickledDict(keys, cs, e) ==
    [kind |-> "pickle", keys |-> keys,
     chunks |-> IF "chunks" \in keys THEN cs ELSE <<>>,
     embeddings |-> IF "embeddings" \in keys THEN e ELSE None]

\* pickle.dump({"chunks": self.chunks, "embeddings": self.embeddings}, f)
Pickled(cs, e) == PickledDict({"chunks", "embeddings"}, cs, e)

Op(name, outcome, raised) == [op |-> name, outcome |-> outcome, raised |-> raised]

Alive == lastOp.op # "crash"

\* The store RAGSystem.load_embeddings leaves, from the store <<cs, e>>:
\* a missing file is skipped; an exception (open or pickle.load failing, a
\* missing key) is caught where it is raised, the assignments before it done.
LoadedStore(f, readable, cs, e) ==
    CASE f.kind = "absent"             -> <<cs, e, "missing">>
      [] ~readable                     -> <<cs, e, "failed">>
      [] f.kind = "garbage"            -> <<cs, e, "failed">>
      [] "chunks" \notin f.keys        -> <<cs, e, "failed">>
      [] "embeddings" \notin f.keys    -> <<f.chunks, e, "failed">>
      [] OTHER                         -> <<f.chunks, f.embeddings, "loaded">>

\* RAGSystem.load_embeddings, as __init__ calls it
LoadEmbeddings(readable) ==
    /\ lastOp.op = "new"
    /\ LET r == LoadedStore(file, readable, chunks, embeddings)
       IN /\ chunks' = r[1]
          /\ embeddings' = r[2]
          /\ lastOp' = Op("load", r[3], FALSE)
    /\ UNCHANGED <<conversation_history, file, lastSaved, argsortTie, query,
                   top_k, retrieved, rr, gen, prompt, src>>

\* RAGSystem.get_document_count
DocumentCount == IF chunks # <<>> THEN Len(chunks) ELSE 0

\* The file RAGSystem.save_embeddings leaves: open(..., "wb") truncates the
\* file before anything is written, so a dump that fails leaves bytes that do
\* not unpickle; an open that fails leaves the file as it was.
SavedFile(f, cs, e, outcome) ==
    CASE outcome = "ok"         -> Pickled(cs, e)
      [] outcome = "open_fails" -> f
      [] OTHER                  -> GarbageFile

SaveOutcomes == {"ok", "open_fails", "write_fails", "crash"}

\* RAGSystem.add_chunks, with the save_embeddings it ends with.  encodes,
\* stacks: whether encode and np.vstack return; saved: how the dump ends.
AddChunks(batch, encodes, stacks, saved) ==
    /\ Alive
    /\ gen.pc # "running"
    /\ Len(chunks) + Len(batch) <= MaxChunks
    /\ NumEmbeddings(embeddings) < MaxChunks
    /\ IF ~encodes
       THEN /\ lastOp' = Op("add", "encode_raised", TRUE)
            /\ UNCHANGED <<chunks, embeddings, file, lastSaved>>
       ELSE LET new_embeddings == Encode(Texts(batch))
            IN IF embeddings # None /\ (~stacks \/ VStackRaises(embeddings, new_embeddings))
               THEN /\ chunks' = chunks \o batch
                    /\ lastOp' = Op("add", "vstack_raised", TRUE)
                    /\ UNCHANGED <<embeddings, file, lastSaved>>
               ELSE /\ chunks' = IF embeddings = None THEN batch ELSE chunks \o batch
                    /\ embeddings' = IF embeddings = None THEN new_embeddings
                                     ELSE VStack(embeddings, new_embeddings)
                    /\ file' = SavedFile(file, chunks', embeddings', saved)
                    /\ lastSaved' = IF saved = "ok" THEN <<chunks', embeddings'>>
                                    ELSE lastSaved
                    /\ lastOp' = IF saved = "crash" THEN Op("crash", saved, FALSE)
                                 ELSE Op("add", saved, FALSE)
    /\ gen' = [gen EXCEPT !.mutated = @ \/ chunks' # chunks \/ embeddings' # embeddings]
    /\ UNCHANGED <<conversation_history, argsortTie, query, top_k, retrieved,
                   rr, prompt, src>>

\* No generator: pc is where the generator made by generate() stands, reranked
\* the context documents it used, prompt the prompt it sent, delivered what its caller has received from
\* it so far (the yielded texts, joined), invoked the calls made to the
\* generation service, mutated whether the store has changed since.
NoGen == [pc |-> "none", stream |-> FALSE, reranked |-> <<>>, prompt |-> <<>>,
          full_response |-> <<>>, delivered |-> <<>>, invoked |-> 0, events |-> 0,
          mutated |-> FALSE]

EmptyMap == [f \in {} |-> <<>>]

\* No get_sources call since the last generate call
NoSources == [called |-> FALSE, query |-> <<>>, reranked |-> <<>>, sources |-> EmptyMap,
              mutated |-> FALSE]

\* RAGSystem.__init__ in a new process: the in-memory storage is made empty
\* and load_embeddings is called.
Construct(readable) ==
    /\ LET r == LoadedStore(file, readable, <<>>, None)
       IN /\ chunks' = r[1]
          /\ embeddings' = r[2]
          /\ lastOp' = Op("init", r[3], FALSE)
    /\ conversation_history' = <<>>
    /\ gen' = NoGen
    /\ src' = NoSources
    /\ UNCHANGED <<file, lastSaved, argsortTie, query, top_k, retrieved, rr, prompt>>

\* --------------------------------------------------------- build_prompt

RECURSIVE Concat(_)
Concat(ss) == IF ss = <<>> THEN <<>> ELSE Head(ss) \o Concat(Tail(ss))

\* "\n\n".join(parts)
RECURSIVE Join(_)
Join(parts) ==
    IF parts = <<>> THEN <<>>
    ELSE IF Len(parts) = 1 THEN parts[1]
    ELSE parts[1] \o <<"\n\n">> \o Join(Tail(parts))

PromptIntro ==
    "You are a helpful assistant. Use the provided context to answer questions accurately.\n\n"
HistoryHeader == "Previous conversation:\n"
ContextHeader == "\n\nContext documents:\n"
QuestionHeader == "\n\nQuestion: "
PromptOutro ==
    "\n\nAnswer based on the context above. If the context doesn't contain relevant information, say so."

\* f"User: {msg['user']}\nAssistant: {msg['assistant']}\n\n"
TurnText(msg) == <<"User: ">> \o msg.user \o <<"\nAssistant: ">> \o msg.assistant \o <<"\n\n">>

WholeHistory(history) == history

\* self.conversation_history[-4:]
RecentHistory(history) == SuffixSlice(history, HistoryWindow)

HistoryText(history) ==
    IF history # <<>>
    THEN LET recent == RecentHistory(history)
         IN <<HistoryHeader>> \o Concat([i \in 1..Len(recent) |-> TurnText(recent[i])])
    ELSE <<>>

\* f"[{doc['source']}]\n{doc['text']}"
ContextPart(doc) == <<"[", doc.source, "]\n">> \o doc.text

\* RAGSystem.build_prompt
BuildPrompt(q, context_docs, history) ==
    <<PromptIntro>> \o HistoryText(history) \o <<ContextHeader>>
        \o Join([i \in 1..Len(context_docs) |-> ContextPart(context_docs[i])])
        \o <<QuestionHeader>> \o q \o <<PromptOutro>>

\* ------------------------------------------------------------- generate

RetrieveRaises(cs, e) ==
    /\ e # None
    /\ Len(cs) > 0
    /\ e.ndim = 1 \/ e.cols # Dim \/ Len(e.rows) > Len(cs)

\* One event of the response stream: with a "response" text, or without one
Fragments == {<<"Paris">>}
Events == [has : {TRUE}, response : Fragments] \cup {[has |-> FALSE, response |-> <<>>]}

TurnWithoutAnswer(q, full_response) == [user |-> q, assistant |-> <<>>]

\* {"user": query, "assistant": full_response}
Turn(q, full_response) == [user |-> q, assistant |-> full_response]

Idle == Alive /\ gen.pc # "running"

\* retrieved = self.retrieve(query); reranked = self.rerank(query, retrieved),
\* as generate runs them
GeneratePass(q) ==
    Rerank(q, Retrieve(chunks, embeddings, q, RETRIEVAL_TOP_K, argsortTie), RERANK_TOP_K)

\* generate(query, stream) is called and its generator is run to its first
\* suspension: retrieve and rerank, then either the return of the no-context
\* branch, which ends the generator (a generator's return value is not among
\* the values it yields), or build_prompt and the call of ollama.
GenerateStart(q, stream) ==
    /\ Idle
    /\ query' = q
    /\ src' = NoSources
    /\ IF RetrieveRaises(chunks, embeddings)
       THEN /\ gen' = [NoGen EXCEPT !.pc = "failed", !.stream = stream]
            /\ lastOp' = Op("generate", "retrieve_raised", TRUE)
       ELSE LET reranked == GeneratePass(q)
            IN IF reranked = <<>>
                  THEN /\ gen' = [NoGen EXCEPT !.pc = "done", !.stream = stream]
                       /\ lastOp' = Op("generate", "no_context", FALSE)
                  ELSE /\ gen' = [NoGen EXCEPT !.pc = "running", !.stream = stream,
                                               !.reranked = reranked, !.invoked = 1,
                                               !.prompt = BuildPrompt(q, reranked,
                                                              conversation_history)]
                       /\ lastOp' = Op("generate", "prompted", FALSE)
    /\ UNCHANGED <<chunks, embeddings, conversation_history, file, lastSaved, argsortTie,
                   top_k, retrieved, rr, prompt>>

\* The generator takes one event of the response stream: the text is added to
\* full_response and, when streaming, yielded to the caller.
GenerateEvent(ev) ==
    /\ Alive
    /\ gen.pc = "running"
    /\ gen.events < MaxFrags
    /\ gen' = [gen EXCEPT
                 !.events = @ + 1,
                 !.full_response = IF ev.has THEN @ \o ev.response ELSE @,
                 !.delivered = IF ev.has /\ gen.stream THEN @ \o ev.response ELSE @]
    /\ lastOp' = Op("generate", "event", FALSE)
    /\ UNCHANGED <<chunks, embeddings, conversation_history, file, lastSaved, argsortTie,
                   query, top_k, retrieved, rr, prompt, src>>

\* The response stream ends: the turn is appended, full_response is yielded
\* when not streaming, and the generator ends.
GenerateEnd ==
    /\ Alive
    /\ gen.pc = "running"
    /\ Len(conversation_history) < MaxTurns
    /\ conversation_history' = Append(conversation_history, Turn(query, gen.full_response))
    /\ gen' = [gen EXCEPT
                 !.pc = "done", !.prompt = <<>>, !.events = 0,
                 !.delivered = IF gen.stream THEN @ ELSE @ \o gen.full_response]
    /\ lastOp' = Op("generate", "completed", FALSE)
    /\ UNCHANGED <<chunks, embeddings, file, lastSaved, argsortTie, query, top_k,
                   retrieved, rr, prompt, src>>

\* The call of the generation service fails: the exception leaves generate.
GenerateRaise ==
    /\ Alive
    /\ gen.pc = "running"
    /\ gen' = [gen EXCEPT !.pc = "failed", !.prompt = <<>>, !.events = 0]
    /\ lastOp' = Op("generate", "ollama_raised", TRUE)
    /\ UNCHANGED <<chunks, embeddings, conversation_history, file, lastSaved, argsortTie,
                   query, top_k, retrieved, rr, prompt, src>>

\* ---------------------------------------------------------- get_sources

\* The dict get_sources builds: file -> the sources of its documents, appended
\* in the order of reranked
RECURSIVE SourceMap(_)
SourceMap(reranked) ==
    IF reranked = <<>> THEN EmptyMap
    ELSE LET sources == SourceMap(SubSeq(reranked, 1, Len(reranked) - 1))
             doc == reranked[Len(reranked)]
             old == IF doc.file \in DOMAIN sources THEN sources[doc.file] ELSE <<>>
         IN [f \in DOMAIN sources \cup {doc.file} |->
                IF f = doc.file THEN Append(old, doc.source) ELSE sources[f]]

SourcesPassTopOne(q) ==
    Rerank(q, Retrieve(chunks, embeddings, q, RETRIEVAL_TOP_K, argsortTie), 1)

\* retrieved = self.retrieve(query); reranked = self.rerank(query, retrieved),
\* as get_sources runs them
SourcesPass(q) ==
    Rerank(q, Retrieve(chunks, embeddings, q, RETRIEVAL_TOP_K, argsortTie), RERANK_TOP_K)

\* RAGSystem.get_sources
GetSources(q) ==
    /\ Idle
    /\ IF RetrieveRaises(chunks, embeddings)
       THEN /\ lastOp' = Op("get_sources", "retrieve_raised", TRUE)
            /\ UNCHANGED src
       ELSE LET reranked == SourcesPass(q)
            IN /\ src' = [called |-> TRUE, query |-> q, reranked |-> reranked,
                          sources |-> SourceMap(reranked), mutated |-> gen.mutated]
               /\ lastOp' = Op("get_sources", "returned", FALSE)
    /\ UNCHANGED <<chunks, embeddings, conversation_history, file, lastSaved, argsortTie,
                   query, top_k, retrieved, rr, gen, prompt>>

\* RAGSystem.clear_history
ClearHistory ==
    /\ Idle
    /\ conversation_history' = <<>>
    /\ lastOp' = Op("clear_history", "returned", FALSE)
    /\ UNCHANGED <<chunks, embeddings, file, lastSaved, argsortTie, query, top_k,
                   retrieved, rr, gen, prompt, src>>

\* ------------------------------------------- calls of the pure methods

\* RAGSystem.retrieve, called on its own
RetrieveCall(q, k) ==
    /\ Idle
    /\ ~RetrieveRaises(chunks, embeddings)
    /\ query' = q
    /\ top_k' = k
    /\ retrieved' = Retrieve(chunks, embeddings, q, k, argsortTie)
    /\ lastOp' = Op("retrieve", "returned", FALSE)
    /\ UNCHANGED <<chunks, embeddings, conversation_history, file, lastSaved, argsortTie,
                   rr, gen, prompt, src>>

\* RAGSystem.rerank, called on its own with the candidate list rr.docs
RerankCall(q, n) ==
    /\ Idle
    /\ rr' = [query |-> q, docs |-> rr.docs, top_n |-> n, result |-> Rerank(q, rr.docs, n)]
    /\ lastOp' = Op("rerank", "returned", FALSE)
    /\ UNCHANGED <<chunks, embeddings, conversation_history, file, lastSaved, argsortTie,
                   query, top_k, retrieved, gen, prompt, src>>

\* RAGSystem.build_prompt, called on its own
BuildPromptCall(q, docs) ==
    /\ Idle
    /\ query' = q
    /\ prompt' = BuildPrompt(q, docs, conversation_history)
    /\ lastOp' = Op("build_prompt", "returned", FALSE)
    /\ UNCHANGED <<chunks, embeddings, conversation_history, file, lastSaved, argsortTie,
                   top_k, retrieved, rr, gen, src>>

\* ------------------------------------------------------- specifications

\* The stores in which every chunk has its embedding: what add_chunks leaves
\* from an empty store, given one batch
StoreOf(cs) == <<cs, IF cs = <<>> THEN None ELSE Encode(Texts(cs))>>

NoRerank == [query |-> <<>>, docs |-> <<>>, top_n |-> 0, result |-> <<>>]

IdentityTie == [i \in 1..MaxChunks |-> i]

\* What every specification starts from: a RAGSystem just constructed, but
\* for the store, the file and the history
Fresh ==
    /\ lastSaved = <<>>
    /\ query = <<>>
    /\ top_k = RETRIEVAL_TOP_K
    /\ retrieved = <<>>
    /\ gen = NoGen
    /\ prompt = <<>>
    /\ src = NoSources

\* A chat session: a RAGSystem constructed over a saved store
ChatStores == {<<>>, <<C_b, C_c>>}
ChatBatches == {<<C_a>>}
ChatQueries == {Q_empty, Q_paris}

Init ==
    /\ Fresh
    /\ \E cs \in ChatStores :
          /\ chunks = StoreOf(cs)[1]
          /\ embeddings = StoreOf(cs)[2]
          /\ file = IF cs = <<>> THEN AbsentFile ELSE Pickled(cs, StoreOf(cs)[2])
          /\ lastOp = Op("init", IF cs = <<>> THEN "missing" ELSE "loaded", FALSE)
    /\ conversation_history = <<>>
    /\ argsortTie \in {IdentityTie, Reverse(IdentityTie)}
    /\ rr = NoRerank

Next ==
    \/ \E q \in ChatQueries, stream \in BOOLEAN : GenerateStart(q, stream)
    \/ \E ev \in Events : GenerateEvent(ev)
    \/ GenerateEnd
    \/ GenerateRaise
    \/ \E q \in ChatQueries : GetSources(q)
    \/ ClearHistory
    \/ \E batch \in ChatBatches : AddChunks(batch, TRUE, TRUE, "ok")

Spec == Init /\ [][Next]_vars

\* The chunk store and its file, from a first run with no file
Batches == SeqsUpTo(ChunkPool, MaxBatch)

InitStore ==
    /\ Fresh
    /\ chunks = <<>>
    /\ embeddings = None
    /\ file = AbsentFile
    /\ lastOp = Op("init", "missing", FALSE)
    /\ conversation_history = <<>>
    /\ argsortTie = IdentityTie
    /\ rr = NoRerank

NextStore ==
    \/ \E batch \in Batches, encodes, stacks \in BOOLEAN, saved \in SaveOutcomes :
          AddChunks(batch, encodes, stacks, saved)
    \/ \E readable \in BOOLEAN : Construct(readable)

SpecStore == InitStore /\ [][NextStore]_vars

\* load_embeddings over every file __init__ may find
Stores == {StoreOf(cs) : cs \in SeqsUpTo(ChunkPool, MaxChunks)}

Files ==
    {AbsentFile, GarbageFile}
        \cup {PickledDict(keys, st[1], st[2]) :
                 keys \in SUBSET {"chunks", "embeddings"}, st \in Stores}

InitRestore ==
    /\ Fresh
    /\ chunks = <<>>
    /\ embeddings = None
    /\ file \in Files
    /\ lastOp = Op("new", "constructing", FALSE)
    /\ conversation_history = <<>>
    /\ argsortTie = IdentityTie
    /\ rr = NoRerank

NextRestore == \E readable \in BOOLEAN : LoadEmbeddings(readable)

SpecRestore == InitRestore /\ [][NextRestore]_vars

\* retrieve over every store, query and top_k
InitRetrieve ==
    /\ Fresh
    /\ \E st \in Stores :
          /\ chunks = st[1]
          /\ embeddings = st[2]
          /\ file = Pickled(st[1], st[2])
    /\ lastOp = Op("init", "loaded", FALSE)
    /\ conversation_history = <<>>
    /\ argsortTie \in Perms(MaxChunks)
    /\ rr = NoRerank

NextRetrieve == \E q \in Queries, k \in 0..MaxTop : RetrieveCall(q, k)

SpecRetrieve == InitRetrieve /\ [][NextRetrieve]_vars

\* rerank over every query, candidate list and top_n
DocPool == {RetrievedDoc(c, CosineSimilarity(Embed(Q_paris), Embed(c.text))) : c \in ChunkPool}

InitRerank ==
    /\ Fresh
    /\ chunks = <<>>
    /\ embeddings = None
    /\ file = AbsentFile
    /\ lastOp = Op("init", "missing", FALSE)
    /\ conversation_history = <<>>
    /\ argsortTie = IdentityTie
    /\ rr \in [query : {<<>>}, docs : SeqsUpTo(DocPool, MaxChunks), top_n : {0},
               result : {<<>>}]

NextRerank == \E q \in Queries, n \in 0..MaxTop : RerankCall(q, n)

SpecRerank == InitRerank /\ [][NextRerank]_vars

\* build_prompt and clear_history over every conversation history
Turns == {Turn(Q_paris, <<"Paris">>), Turn(Q_rome, <<>>)}

Contexts == {<<RetrievedDoc(C_a, 20)>>, <<RetrievedDoc(C_b, 62), RetrievedDoc(C_c, 62)>>}

InitPrompt ==
    /\ Fresh
    /\ chunks = <<>>
    /\ embeddings = None
    /\ file = AbsentFile
    /\ lastOp = Op("init", "missing", FALSE)
    /\ conversation_history \in SeqsUpTo(Turns, MaxHist)
    /\ argsortTie = IdentityTie
    /\ rr = NoRerank

NextPrompt ==
    \/ \E q \in Queries, docs \in Contexts : BuildPromptCall(q, docs)
    \/ ClearHistory

SpecPrompt == InitPrompt /\ [][NextPrompt]_vars

\* ------------------------------------------------------------ the claims

\* The similarity of the query to every stored chunk, in store order
ChunkSims(q) == [i \in 1..Len(chunks) |-> CosineSimilarity(Embed(q), Embed(chunks[i].text))]

\* The p-th entry of sims sorted in descending order
DescAt(sims, p) ==
    CHOOSE v \in Range(sims) :
        /\ Cardinality({i \in 1..Len(sims) : sims[i] > v}) < p
        /\ p <= Cardinality({i \in 1..Len(sims) : sims[i] >= v})

\* The indices of keys in descending order of key, equal keys in ascending
\* order of index; a key is a fraction <<numerator, denominator>>
StableDescOrder(keys) ==
    LET n == Len(keys)
        Pos(i) == 1 + Cardinality({j \in 1..n : FracLess(keys[i], keys[j])})
                    + Cardinality({j \in 1..(i - 1) :
                                     ~FracLess(keys[i], keys[j]) /\ ~FracLess(keys[j], keys[i])})
    IN [p \in 1..n |-> CHOOSE i \in 1..n : Pos(i) = p]

\* C1: in every state the store reaches through load_embeddings and add_chunks
\* calls, whatever the batch and whether or not encoding, stacking or saving
\* fails, there are as many embeddings as chunks and the embedding at index i
\* is the embedding of the chunk at index i.
C1_IndexAligned ==
    /\ NumEmbeddings(embeddings) = Len(chunks)
    /\ \A i \in 1..Len(chunks) : embeddings.rows[i] = Embed(chunks[i].text)

\* C2: once a persist has completed, the file holds a complete copy of the
\* store as of the last completed persist, whatever happens in a later persist
\* (a failing write, a crash).
C2_DurableCopyKept ==
    lastSaved # <<>> => file = Pickled(lastSaved[1], lastSaved[2])

\* C7: whenever load_embeddings fails (file missing, unreadable, corrupt, or a
\* dict without "chunks" or without "embeddings"), nothing is raised and the
\* store is left empty: no chunks, no embeddings, a document count of 0, and
\* retrieve returns the empty sequence.
C7_FailedLoadLeavesEmpty ==
    (lastOp.op = "load" /\ lastOp.outcome \in {"missing", "failed"}) =>
        /\ ~lastOp.raised
        /\ chunks = <<>>
        /\ embeddings = None
        /\ DocumentCount = 0
        /\ \A q \in Queries, k \in 0..MaxTop :
              Retrieve(chunks, embeddings, q, k, argsortTie) = <<>>

\* C3: a query for which retrieve and rerank yield no context document (as
\* with an empty store) ends with the caller of generate, streaming or not,
\* holding the no-context message, the generation service never invoked;
\* and retrieve on an empty store returns the empty sequence.
C3_NoContextMessageDelivered ==
    /\ (gen.pc = "done" /\ gen.reranked = <<>>) =>
          /\ gen.delivered = NoContextMessage
          /\ gen.invoked = 0
    /\ chunks = <<>> =>
          \A q \in Queries : Retrieve(chunks, embeddings, q, RETRIEVAL_TOP_K, argsortTie) = <<>>

\* C4: retrieve(query, top_k), top_k >= 0, returns at most top_k results, each
\* a stored chunk with its similarity, each similarity above 0.1, in order of
\* non-increasing similarity; the similarities returned are those of the first
\* top_k entries of the descending-sorted list that exceed the floor.
C4_RetrieveTopKAboveFloor ==
    lastOp.op = "retrieve" =>
        LET sims == ChunkSims(query)
            n == Len(retrieved)
            first == [p \in 1..Min(top_k, Len(sims)) |-> DescAt(sims, p)]
        IN /\ n <= top_k
           /\ \A i \in 1..n : retrieved[i].similarity > Floor
           /\ \A i \in 1..n : \A j \in (i + 1)..n :
                 retrieved[i].similarity >= retrieved[j].similarity
           /\ \A i \in 1..n : \E j \in 1..Len(chunks) :
                 retrieved[i] = RetrievedDoc(chunks[j], sims[j])
           /\ [i \in 1..n |-> retrieved[i].similarity]
                 = SelectSeq(first, LAMBDA v : v > Floor)

C4_Witness ==
    /\ lastOp.op = "retrieve"
    /\ 0 < Len(retrieved)
    /\ Len(retrieved) < top_k
    /\ top_k < Len(chunks)

\* C5: chunks of equal similarity are returned in store order, the lower index
\* first, and a top_k cut inside such a group keeps the lower indices.
C5_TiesInStoreOrder ==
    lastOp.op = "retrieve" =>
        LET sims == ChunkSims(query)
            order == PrefixSlice(StableDescOrder([i \in 1..Len(sims) |-> <<sims[i], 1>>]), top_k)
            kept == SelectSeq(order, LAMBDA i : sims[i] > Floor)
        IN retrieved = [p \in 1..Len(kept) |-> RetrievedDoc(chunks[kept[p]], sims[kept[p]])]

\* The score of the claim: |query_words & text_words| / (|query_words| + 1)
\* over lowercased unique words, as <<numerator, denominator>>
OverlapScore(q, text) ==
    LET words(t) == {LowerWord(t[i]) : i \in {j \in 1..Len(t) : t[j] # " "}}
    IN <<Cardinality(words(q) \cap words(text)), Cardinality(words(q)) + 1>>

\* C6: rerank(query, docs, top_n) returns at most top_n candidates, in order
\* of non-increasing score, candidates of equal score in their incoming
\* order: the first top_n of docs sorted stably by descending score.  With
\* an empty query every score is 0 and the result is the first top_n of docs.
C6_RerankStable ==
    lastOp.op = "rerank" =>
        LET docs == rr.docs
            scores == [i \in 1..Len(docs) |-> OverlapScore(rr.query, docs[i].text)]
            order == StableDescOrder(scores)
            n == Len(rr.result)
        IN /\ n <= rr.top_n
           /\ n = Min(rr.top_n, Len(docs))
           /\ \A p \in 1..n : rr.result[p] = docs[order[p]]
           /\ \A p \in 1..n : \A r \in (p + 1)..n :
                 /\ ~FracLess(scores[order[p]], scores[order[r]])
                 /\ scores[order[p]] = scores[order[r]] => order[p] < order[r]
           /\ Split(rr.query) = <<>> =>
                 /\ \A i \in 1..Len(docs) : scores[i][1] = 0
                 /\ rr.result = SubSeq(docs, 1, n)

C6_Witness ==
    /\ lastOp.op = "rerank"
    /\ Len(rr.result) = rr.top_n
    /\ rr.top_n < Len(rr.docs)
    /\ rr.result # SubSeq(rr.docs, 1, rr.top_n)
    /\ \E i, j \in 1..Len(rr.docs) :
          /\ i < j
          /\ OverlapScore(rr.query, rr.docs[i].text) = OverlapScore(rr.query, rr.docs[j].text)
          /\ rr.docs[i] \in Range(rr.result)
          /\ rr.docs[j] \notin Range(rr.result)

\* A step in which a query reaches Completed
Completes == lastOp'.op = "generate" /\ lastOp'.outcome \in {"completed", "no_context"}

\* C8: every query that reaches Completed, through Generating or through the
\* no-context short-circuit, appends exactly one turn to the end of the
\* conversation log, holding the query and the answer delivered to the caller.
C8_EveryCompletionAppends ==
    [][Completes =>
          conversation_history' = Append(conversation_history,
                                         [user |-> query', assistant |-> gen'.delivered])]_vars

\* C8, amended: a query that reaches Completed through Generating appends
\* exactly one turn to the end of the log, holding the query and the answer
\* delivered to the caller; a query that reaches Completed through the
\* no-context short-circuit leaves the log as it was; no other step of a
\* query changes the log.
C8_GeneratedCompletionAppends ==
    [][/\ (lastOp'.op = "generate" /\ lastOp'.outcome = "completed") =>
             /\ gen'.pc = "done"
             /\ conversation_history' = Append(conversation_history,
                                               [user |-> query', assistant |-> gen'.delivered])
       /\ (lastOp'.op = "generate" /\ lastOp'.outcome # "completed") =>
             conversation_history' = conversation_history]_vars

C8_Witness ==
    /\ lastOp.op = "generate"
    /\ lastOp.outcome = "completed"
    /\ gen.delivered # <<>>
    /\ Len(conversation_history) = 2
    /\ conversation_history[1] # conversation_history[2]

\* The sources of the documents of file f, in the order of docs
LabelsOf(docs, f) ==
    LET of == SelectSeq(docs, LAMBDA d : d.file = f)
    IN [i \in 1..Len(of) |-> of[i].source]

\* C9: with no store mutation between the two passes, the reranked documents
\* get_sources(q) computes are those generate(q) built its prompt from,
\* whatever was appended to the conversation in between; the map returned
\* lists, for each file, the sources of that file's reranked documents in
\* reranked order, repeats kept, and has no file without a reranked document.
C9_SourcesMatchGeneration ==
    /\ (src.called /\ src.query = query /\ gen.invoked = 1 /\ ~src.mutated) =>
          src.reranked = gen.reranked
    /\ src.called =>
          /\ DOMAIN src.sources = {d.file : d \in Range(src.reranked)}
          /\ \A f \in DOMAIN src.sources : src.sources[f] = LabelsOf(src.reranked, f)

C9_Witness ==
    /\ src.called
    /\ src.query = query
    /\ gen.pc = "done"
    /\ gen.invoked = 1
    /\ ~src.mutated
    /\ conversation_history # <<>>
    /\ Len(src.reranked) >= 2
    /\ \E f \in DOMAIN src.sources :
          Len(src.sources[f]) >= 2 /\ src.sources[f][1] = src.sources[f][2]

\* The part of a prompt between its introduction and its context header
HistorySection(p) ==
    LET at == CHOOSE i \in 1..Len(p) : p[i] = ContextHeader /\ \A j \in 1..(i - 1) : p[j] # ContextHeader
    IN SubSeq(p, 2, at - 1)

\* C10: after clear_history the log is empty; the history section of a prompt
\* holds exactly the last min(4, n) turns of the n turns of the log, in order
\* of occurrence, as "User:"/"Assistant:" lines under the "Previous
\* conversation" header, and there is no such section when n = 0.
C10_HistoryWindow ==
    /\ lastOp.op = "clear_history" => conversation_history = <<>>
    /\ lastOp.op = "build_prompt" =>
          LET h == conversation_history
              n == Len(h)
              m == Min(4, n)
              lines(t) == <<"User: ">> \o t.user \o <<"\nAssistant: ">> \o t.assistant
                              \o <<"\n\n">>
          IN /\ n = 0 => HistorySection(prompt) = <<>> /\ HistoryHeader \notin Range(prompt)
             /\ n > 0 =>
                   /\ Head(HistorySection(prompt)) = HistoryHeader
                   /\ Tail(HistorySection(prompt))
                         = Concat([j \in 1..m |-> lines(h[n - m + j])])

C10_Witness ==
    /\ lastOp.op = "build_prompt"
    /\ Len(conversation_history) = 5
    /\ conversation_history[1] # conversation_history[2]

====
